---- MODULE Spec2Model ----
(***************************************************************************)
(* Model of the InfiniTime BLE file-transfer client (src/src/lib.rs,       *)
(* src/src/responses.rs): one session, the frames it writes to the         *)
(* transfer characteristic, the notification stream it consumes, and a     *)
(* device emulator that answers each request frame.  Frames are byte       *)
(* sequences, encoded and decoded as the code does.                        *)
(***************************************************************************)
EXTENDS Integers, Sequences, FiniteSets, TLC

VARIABLES
    running,        \* the operations in progress (their futures): position and locals
    last,           \* the operation that ended most recently, as it ended
    nops,           \* operations issued on the session so far
    inbox,          \* frames written to the transfer characteristic, not yet handled by the device
    notifications,  \* InfiniTime.notifications: frames emitted by the device, not yet consumed
    closed,         \* the notification stream has ended (it yields None once drained)
    files,          \* device: stored file contents by path
    devWrite,       \* device: the write transfer in progress
    devRead,        \* device: the path of the read transfer in progress
    abandoned       \* some operation of the session was dropped before it returned

vars ==
    <<running, last, nops, inbox, notifications, closed, files, devWrite, devRead,
      abandoned>>

---------------------------------------------------------------------------
(* Bounds of the model *)

MaxOps == 2         \* operations issued on one session
MaxEntries == 1     \* entries of a directory the device lists

(* Callers that may issue operations on the session at the same time. *)
NumCallers == 2

(* Paths "x" and "/y" as bytes; file lengths around the chunk size. *)
Paths == {<<120>>, <<47, 121>>}
DataLens == {0, 231, 300}
Timestamps == {5}

(* Values read from the version characteristic: 4 bytes, fewer, more. *)
VersionReads == {<<1, 0, 0, 0>>, <<5>>, <<1, 2, 3, 4, 9, 9>>}

Data(n) == [i \in 1..n |-> i % 251]

---------------------------------------------------------------------------
(* Program constants *)

(* Mutant: the chunk size set to the whole ATT payload of a 247-byte MTU. *)
MAX_PAYLOAD_MTU == 231 + 13

MAX_PAYLOAD == 231

SizeOfU32 == 4
SizeOfRawDirEntry == 26
SizeOfFileChunk == 14
SizeOfWriteReceipt == 18
SizeOfMkdirReceipt == 14
SizeOfMvReceipt == 0
SizeOfRmReceipt == 0

CommandFileChunk == 17
CommandWriteReceipt == 33
CommandRmReceipt == 49
CommandMkdirReceipt == 65
CommandRawDirEntry == 81
CommandMvReceipt == 97

---------------------------------------------------------------------------
(* Byte helpers *)

RECURSIVE ToLeBytes(_, _)
ToLeBytes(n, k) == IF k = 0 THEN <<>> ELSE <<n % 256>> \o ToLeBytes(n \div 256, k - 1)

RECURSIVE FromLeBytes(_)
FromLeBytes(b) == IF b = <<>> THEN 0 ELSE b[1] + 256 * FromLeBytes(Tail(b))

Zeros(k) == [i \in 1..k |-> 0]

(* The k-byte little-endian field at byte offset off (0-based) of b. *)
Field(b, off, k) == FromLeBytes(SubSeq(b, off + 1, off + k))

AsU16(n) == n % 65536

Min(a, b) == IF a < b THEN a ELSE b

---------------------------------------------------------------------------
(* Request frames: the closures handed to send *)

ListDirFrame(path) ==
    <<80, 0>> \o ToLeBytes(AsU16(Len(path)), 2) \o path

ReadFileFrame(path, offset) ==
    <<16, 0>> \o ToLeBytes(AsU16(Len(path)), 2) \o ToLeBytes(offset, 4)
        \o ToLeBytes(MAX_PAYLOAD, 4) \o path

ReadContinueFrame(offset) ==
    <<18, 1>> \o <<0, 0>> \o ToLeBytes(offset, 4) \o ToLeBytes(MAX_PAYLOAD, 4)

WriteFileFrame(path, offset, timestamp, dataLen) ==
    <<32, 0>> \o ToLeBytes(AsU16(Len(path)), 2) \o ToLeBytes(offset, 4)
        \o ToLeBytes(timestamp, 8) \o ToLeBytes(dataLen, 4) \o path

WriteChunkFrame(offset, remaining_data) ==
    <<34, 1>> \o <<0, 0>> \o ToLeBytes(offset, 4)
        \o ToLeBytes(Len(remaining_data), 4) \o remaining_data

DeleteFileFrame(path) ==
    <<48, 0>> \o ToLeBytes(AsU16(Len(path)), 2) \o path

CreateDirFrame(path, timestamp) ==
    <<64, 0>> \o ToLeBytes(AsU16(Len(path)), 2) \o Zeros(4)
        \o ToLeBytes(timestamp, 8) \o path

(* Mutant: the two paths of a move are not separated by a zero byte. *)
MoveFileFrameNoSeparator(from, to) ==
    <<96, 0>> \o ToLeBytes(AsU16(Len(from)), 2) \o ToLeBytes(AsU16(Len(to)), 2)
        \o from \o to

MoveFileFrame(from, to) ==
    <<96, 0>> \o ToLeBytes(AsU16(Len(from)), 2) \o ToLeBytes(AsU16(Len(to)), 2)
        \o from \o <<0>> \o to

(* Mutant: the slice is not cut to MAX_PAYLOAD. *)
RemainingDataUncut(data, offset) == SubSeq(data, offset + 1, Len(data))

(* write_file: the slice of data sent next, at most MAX_PAYLOAD bytes from offset. *)
RemainingData(data, offset) ==
    LET remaining_data == SubSeq(data, offset + 1, Len(data))
    IN  IF Len(remaining_data) > MAX_PAYLOAD
        THEN SubSeq(remaining_data, 1, MAX_PAYLOAD)
        ELSE remaining_data

---------------------------------------------------------------------------
(* Receiving: bytemuck::from_bytes, recv, payload_recv *)

Panicked == [panic |-> TRUE, response |-> <<>>, payload |-> <<>>]

(* bytemuck::from_bytes::<Response<T>> accepts a slice of exactly          *)
(* size_of::<Response<T>>() = 2 + size_of::<T>() bytes and panics otherwise. *)
FromBytesOk(bytes, size) == Len(bytes) = 2 + size

(* Mutant: the status byte is not asserted. *)
ResponseAssertsCommandOnly(response, command) == response[1] = command

(* assert_eq!(response.command, T::COMMAND); assert_eq!(response.status, 1) *)
ResponseAsserts(response, command) ==
    /\ response[1] = command
    /\ response[2] = 1

(* Mutant: the command byte of the response is not asserted. *)
recvAnyCommand(size, command, value) ==
    IF ~FromBytesOk(value, size) THEN Panicked
    ELSE IF value[2] # 1 THEN Panicked
    ELSE [panic |-> FALSE, response |-> value, payload |-> <<>>]

recv(size, command, value) ==
    IF ~FromBytesOk(value, size) THEN Panicked
    ELSE IF ~ResponseAsserts(value, command) THEN Panicked
    ELSE [panic |-> FALSE, response |-> value, payload |-> <<>>]

(* Mutant: the split the wire layout calls for, after the whole            *)
(* Response<T>: command, status and body.                                  *)
SplitAtResponse(size) == 2 + size

(* Vec::split_off(at) panics when at > len; the vector keeps [0, at). *)
SplitAt(size) == size

payload_recv(size, command, value) ==
    IF SplitAt(size) > Len(value) THEN Panicked
    ELSE LET data == SubSeq(value, 1, SplitAt(size))
             payload == SubSeq(value, SplitAt(size) + 1, Len(value))
         IN  IF ~FromBytesOk(data, size) THEN Panicked
             ELSE IF ~ResponseAsserts(data, command) THEN Panicked
             ELSE [panic |-> FALSE, response |-> data, payload |-> payload]

---------------------------------------------------------------------------
(* Operations *)

(* What an operation remembers of the one that ended before it was called. *)
NoPrev ==
    [id |-> 0, op |-> "none", path |-> <<>>, data |-> <<>>, timestamp |-> 0,
     sent |-> <<>>, rcvd |-> <<>>, result |-> "none"]

Summary(t) ==
    [id |-> t.id, op |-> t.op, path |-> t.path, data |-> t.data,
     timestamp |-> t.timestamp, sent |-> t.sent, rcvd |-> t.rcvd,
     result |-> t.result]

(* An operation's record: pc, its arguments, its locals (offset, contents, *)
(* entries), the frames it sent and the notifications it consumed, whether *)
(* the stream yielded None to it, the u32 that version returned, and how   *)
(* it ended.  For version, data holds the bytes read.                      *)
Idle ==
    [pc |-> "idle", id |-> 0, op |-> "none", path |-> <<>>, to |-> <<>>,
     data |-> <<>>, timestamp |-> 0, offset |-> 0, contents |-> <<>>,
     entries |-> <<>>, sent |-> <<>>, rcvd |-> <<>>, none |-> FALSE,
     version |-> 0, result |-> "none", prev |-> NoPrev]

(* Mutant: the operations take &self, so a call never waits for another. *)
ExclusiveShared == TRUE

(* Every operation takes &mut self: a call needs the session unborrowed,  *)
(* that is, no other operation's future alive.                           *)
Exclusive == running = {}

Returned(t, res) == [t EXCEPT !.pc = "done", !.result = res]

Out(t, frames) == [task |-> t, send |-> frames]

(* The call of an operation up to its first await on the stream: it      *)
(* writes the operation's first frame.                                   *)
Call(t, frame) ==
    /\ Exclusive
    /\ Cardinality(running) < NumCallers
    /\ ~closed
    /\ nops < MaxOps
    /\ nops' = nops + 1
    /\ running' = running \cup
           {[t EXCEPT !.pc = "recv", !.id = nops + 1, !.sent = <<frame>>,
                      !.prev = Summary(last)]}
    /\ inbox' = Append(inbox, [frame |-> frame, req |-> nops + 1])
    /\ UNCHANGED <<last, notifications, closed, files, devWrite, devRead, abandoned>>

(* One turn of an operation: notifications.next() and the code up to the  *)
(* next await on the stream, or to the return.                            *)
Step(t, op, Body(_, _), OnNone(_)) ==
    /\ t.op = op
    /\ ~(notifications = <<>> /\ ~closed)
    /\ LET o == IF notifications = <<>>
                THEN Out(OnNone([t EXCEPT !.none = TRUE]), <<>>)
                ELSE Body([t EXCEPT !.rcvd = Append(@, Head(notifications))],
                          Head(notifications).value)
       IN  /\ notifications' =
                  IF notifications = <<>> THEN <<>> ELSE Tail(notifications)
           /\ inbox' = inbox \o
                  [i \in 1..Len(o.send) |-> [frame |-> o.send[i], req |-> t.id]]
           /\ IF o.task.pc = "done"
              THEN /\ running' = running \ {t}
                   /\ last' = o.task
              ELSE /\ running' = (running \ {t}) \cup
                                  {[o.task EXCEPT !.sent = @ \o o.send]}
                   /\ last' = last
    /\ UNCHANGED <<nops, closed, files, devWrite, devRead, abandoned>>

(* while let Some(..) = ... : None ends the loop and the operation returns Ok. *)
LoopEnds(t) == Returned(t, "ok")

(* recv().await.unwrap() : None panics. *)
UnwrapNone(t) == Returned(t, "panic")

DirEntry(response, payload) ==
    [flags |-> Field(response, 12, 4), timestamp |-> Field(response, 16, 8),
     size |-> Field(response, 24, 4), path |-> payload]

ListDirBody(t, value) ==
    LET r == payload_recv(SizeOfRawDirEntry, CommandRawDirEntry, value)
    IN  IF r.panic THEN Out(Returned(t, "panic"), <<>>)
        ELSE IF Field(r.response, 4, 4) # Len(t.entries)
        THEN Out(Returned(t, "panic"), <<>>)
        ELSE IF Field(r.response, 2, 2) # Len(r.payload)
        THEN Out(Returned(t, "panic"), <<>>)
        ELSE LET t1 == [t EXCEPT !.entries =
                           Append(@, DirEntry(r.response, r.payload))]
             IN  IF Field(r.response, 4, 4) = Field(r.response, 8, 4)
                 THEN Out(Returned(t1, "ok"), <<>>)
                 ELSE Out(t1, <<>>)

ReadFileBody(t, value) ==
    LET r == payload_recv(SizeOfFileChunk, CommandFileChunk, value)
    IN  IF r.panic THEN Out(Returned(t, "panic"), <<>>)
        ELSE IF Field(r.response, 4, 4) # t.offset
        THEN Out(Returned(t, "panic"), <<>>)
        ELSE IF Field(r.response, 12, 4) # Len(r.payload)
        THEN Out(Returned(t, "panic"), <<>>)
        ELSE LET contents == t.contents \o r.payload
                 offset == t.offset + Field(r.response, 12, 4)
             IN  IF Len(contents) = Field(r.response, 8, 4)
                 THEN Out(Returned([t EXCEPT !.contents = contents], "ok"), <<>>)
                 ELSE Out([t EXCEPT !.contents = contents, !.offset = offset],
                          <<ReadContinueFrame(offset)>>)

(* Mutant: write_file returns as soon as it has written the last chunk,    *)
(* without taking that chunk's receipt.                                    *)
WriteFileBodyLeavesReceipt(t, value) ==
    LET r == recv(SizeOfWriteReceipt, CommandWriteReceipt, value)
        remaining_data == RemainingData(t.data, t.offset)
        offset == t.offset + Len(remaining_data)
        chunk == WriteChunkFrame(t.offset, remaining_data)
    IN  IF r.panic THEN Out(Returned(t, "panic"), <<>>)
        ELSE IF remaining_data = <<>> THEN Out(Returned(t, "ok"), <<>>)
        ELSE IF RemainingData(t.data, offset) = <<>>
        THEN Out(Returned([t EXCEPT !.offset = offset, !.sent = Append(@, chunk)],
                          "ok"),
                 <<chunk>>)
        ELSE Out([t EXCEPT !.offset = offset], <<chunk>>)

(* Mutant: the offset echoed in the receipt is asserted, as in the line    *)
(* the source has commented out.                                           *)
WriteFileBodyAssertsOffset(t, value) ==
    LET r == recv(SizeOfWriteReceipt, CommandWriteReceipt, value)
        remaining_data == RemainingData(t.data, t.offset)
    IN  IF r.panic THEN Out(Returned(t, "panic"), <<>>)
        ELSE IF Field(r.response, 4, 4) # t.offset
        THEN Out(Returned(t, "panic"), <<>>)
        ELSE IF remaining_data = <<>> THEN Out(Returned(t, "ok"), <<>>)
        ELSE Out([t EXCEPT !.offset = @ + Len(remaining_data)],
                 <<WriteChunkFrame(t.offset, remaining_data)>>)

WriteFileBody(t, value) ==
    LET r == recv(SizeOfWriteReceipt, CommandWriteReceipt, value)
        remaining_data == RemainingData(t.data, t.offset)
    IN  IF r.panic THEN Out(Returned(t, "panic"), <<>>)
        ELSE IF remaining_data = <<>> THEN Out(Returned(t, "ok"), <<>>)
        ELSE Out([t EXCEPT !.offset = @ + Len(remaining_data)],
                 <<WriteChunkFrame(t.offset, remaining_data)>>)

DeleteFileBody(t, value) ==
    IF recv(SizeOfRmReceipt, CommandRmReceipt, value).panic
    THEN Out(Returned(t, "panic"), <<>>) ELSE Out(Returned(t, "ok"), <<>>)

CreateDirBody(t, value) ==
    IF recv(SizeOfMkdirReceipt, CommandMkdirReceipt, value).panic
    THEN Out(Returned(t, "panic"), <<>>) ELSE Out(Returned(t, "ok"), <<>>)

MoveFileBody(t, value) ==
    IF recv(SizeOfMvReceipt, CommandMvReceipt, value).panic
    THEN Out(Returned(t, "panic"), <<>>) ELSE Out(Returned(t, "ok"), <<>>)

(* Mutant: the zero bytes are put in front of the bytes read. *)
ResizeLeftPad(bytes, new_len) ==
    IF Len(bytes) > new_len THEN SubSeq(bytes, 1, new_len)
    ELSE Zeros(new_len - Len(bytes)) \o bytes

(* Vec::resize(new_len, 0): truncates, or extends with zero bytes. *)
Resize(bytes, new_len) ==
    IF Len(bytes) > new_len THEN SubSeq(bytes, 1, new_len)
    ELSE bytes \o Zeros(new_len - Len(bytes))

(* version: reads the version characteristic; takes &self, so it needs no *)
(* operation's future alive; it neither sends nor takes a notification.   *)
version ==
    \E bytes \in VersionReads :
        /\ Exclusive
        /\ nops < MaxOps
        /\ nops' = nops + 1
        /\ last' = [Idle EXCEPT !.pc = "done", !.id = nops + 1, !.op = "version",
                                !.data = bytes,
                                !.version = FromLeBytes(Resize(bytes, SizeOfU32)),
                                !.result = "ok", !.prev = Summary(last)]
        /\ UNCHANGED <<running, inbox, notifications, closed, files, devWrite,
                       devRead, abandoned>>

ListDir(path) ==
    Call([Idle EXCEPT !.op = "list_dir", !.path = path], ListDirFrame(path))

list_dir == \E path \in Paths : ListDir(path)

list_dir_loop(t) == Step(t, "list_dir", ListDirBody, LoopEnds)

ReadFile(path) ==
    Call([Idle EXCEPT !.op = "read_file", !.path = path], ReadFileFrame(path, 0))

read_file == \E path \in Paths : ReadFile(path)

read_file_loop(t) == Step(t, "read_file", ReadFileBody, LoopEnds)

WriteFile(path, data, timestamp) ==
    Call([Idle EXCEPT !.op = "write_file", !.path = path, !.data = data,
                         !.timestamp = timestamp],
         WriteFileFrame(path, 0, timestamp, Len(data)))

write_file ==
    \E path \in Paths, n \in DataLens, timestamp \in Timestamps :
        WriteFile(path, Data(n), timestamp)

write_file_loop(t) == Step(t, "write_file", WriteFileBody, LoopEnds)

DeleteFile(path) ==
    Call([Idle EXCEPT !.op = "delete_file", !.path = path], DeleteFileFrame(path))

delete_file == \E path \in Paths : DeleteFile(path)

delete_file_recv(t) == Step(t, "delete_file", DeleteFileBody, UnwrapNone)

CreateDir(path, timestamp) ==
    Call([Idle EXCEPT !.op = "create_dir", !.path = path, !.timestamp = timestamp],
         CreateDirFrame(path, timestamp))

create_dir ==
    \E path \in Paths, timestamp \in Timestamps : CreateDir(path, timestamp)

create_dir_recv(t) == Step(t, "create_dir", CreateDirBody, UnwrapNone)

MoveFile(from, to) ==
    Call([Idle EXCEPT !.op = "move_file", !.path = from, !.to = to],
         MoveFileFrame(from, to))

move_file == \E from \in Paths : \E to \in Paths \ {from} : MoveFile(from, to)

move_file_recv(t) == Step(t, "move_file", MoveFileBody, UnwrapNone)

(* The caller drops the operation's future while it awaits the stream. *)
Abandon(t) ==
    /\ running' = running \ {t}
    /\ last' = Returned(t, "cancelled")
    /\ abandoned' = TRUE
    /\ UNCHANGED <<nops, inbox, notifications, closed, files, devWrite, devRead>>

---------------------------------------------------------------------------
(* The device: answers each request frame, in the order they were written *)

FileChunkFrame(offset, total_len, payload) ==
    <<CommandFileChunk, 1>> \o <<0, 0>> \o ToLeBytes(offset, 4)
        \o ToLeBytes(total_len, 4) \o ToLeBytes(Len(payload), 4) \o payload

WriteReceiptFrame(offset, timestamp, remaining) ==
    <<CommandWriteReceipt, 1>> \o <<0, 0>> \o ToLeBytes(offset, 4)
        \o ToLeBytes(timestamp, 8) \o ToLeBytes(remaining, 4)

RmReceiptFrame == <<CommandRmReceipt, 1>>

MkdirReceiptFrame(timestamp) ==
    <<CommandMkdirReceipt, 1>> \o Zeros(6) \o ToLeBytes(timestamp, 8)

MvReceiptFrame == <<CommandMvReceipt, 1>>

RawDirEntryFrame(entry_number, entry_count, flags, timestamp, size, path) ==
    <<CommandRawDirEntry, 1>> \o ToLeBytes(AsU16(Len(path)), 2)
        \o ToLeBytes(entry_number, 4) \o ToLeBytes(entry_count, 4)
        \o ToLeBytes(flags, 4) \o ToLeBytes(timestamp, 8) \o ToLeBytes(size, 4)
        \o path

(* A listing of n entries "A", "B", ...: frames 0..n-1, then the frame     *)
(* with entry_number = entry_count and no path.                           *)
Listing(n) ==
    [k \in 1..n |-> RawDirEntryFrame(k - 1, n, 2, 0, 0, <<64 + k>>)]
        \o <<RawDirEntryFrame(n, n, 0, 0, 0, <<>>)>>

(* The bytes of a stored file served for one read request. *)
Serve(data, offset, chunk_size) ==
    SubSeq(data, offset + 1, Min(Len(data), offset + chunk_size))

Faults == {"none", "status", "command", "length", "fields", "overshoot", "zero"}

(* What the device may do to a response frame: a wrong status, a wrong     *)
(* command, a wrong length; "fields" keeps a write receipt a success       *)
(* receipt and reports another offset, timestamp and remaining capacity;   *)
(* "overshoot" reports a total_len one less than the bytes the chunk       *)
(* carries; "zero" sends a chunk of no bytes for a file that has some.     *)
Corrupt(fault, frame) ==
    CASE fault = "status" -> [frame EXCEPT ![2] = 0]
      [] fault = "command" -> [frame EXCEPT ![1] = (@ + 16) % 256]
      [] fault = "length" -> frame \o <<0>>
      [] fault = "fields" ->
             WriteReceiptFrame(Field(frame, 4, 4) + 7, Field(frame, 8, 8) + 1, 0)
      [] fault = "overshoot" ->
             FileChunkFrame(Field(frame, 4, 4), Len(frame) - 17,
                            SubSeq(frame, 17, Len(frame)))
      [] fault = "zero" ->
             FileChunkFrame(Field(frame, 4, 4), Field(frame, 8, 4), <<>>)
      [] OTHER -> frame

(* The device starts with a 300-byte file "x" and an empty file "/y". *)
InitialFiles == [p \in Paths |-> IF p = <<120>> THEN Data(300) ELSE <<>>]

NoWrite == [path |-> <<>>, total |-> 0, buf |-> <<>>]

(* The device's answer to request frame f: the response frames and its    *)
(* state after it.  n is the number of entries of a listed directory.     *)
DeviceAnswer(f, n) ==
    LET opcode == f[1]
        same == [frames |-> <<>>, files |-> files, devWrite |-> devWrite,
                 devRead |-> devRead]
    IN  CASE opcode = 16 ->
               LET path == SubSeq(f, 13, 12 + Field(f, 2, 2))
                   data == files[path]
               IN  [same EXCEPT !.devRead = path,
                       !.frames = <<FileChunkFrame(Field(f, 4, 4), Len(data),
                           Serve(data, Field(f, 4, 4), Field(f, 8, 4)))>>]
          [] opcode = 18 ->
               LET data == files[devRead]
               IN  [same EXCEPT
                       !.frames = <<FileChunkFrame(Field(f, 4, 4), Len(data),
                           Serve(data, Field(f, 4, 4), Field(f, 8, 4)))>>]
          [] opcode = 32 ->
               LET path == SubSeq(f, 21, 20 + Field(f, 2, 2))
                   total == Field(f, 16, 4)
               IN  [same EXCEPT
                       !.devWrite = [path |-> path, total |-> total, buf |-> <<>>],
                       !.files = IF total = 0 THEN [files EXCEPT ![path] = <<>>]
                                 ELSE files,
                       !.frames = <<WriteReceiptFrame(0, Field(f, 8, 8), total)>>]
          [] opcode = 34 ->
               LET buf == devWrite.buf \o SubSeq(f, 13, 12 + Field(f, 8, 4))
               IN  [same EXCEPT
                       !.devWrite = [devWrite EXCEPT !.buf = buf],
                       !.files = IF Len(buf) = devWrite.total
                                 THEN [files EXCEPT ![devWrite.path] = buf]
                                 ELSE files,
                       !.frames = <<WriteReceiptFrame(Len(buf), 0,
                                        devWrite.total - Len(buf))>>]
          [] opcode = 48 ->
               LET path == SubSeq(f, 5, 4 + Field(f, 2, 2))
               IN  [same EXCEPT !.files = [files EXCEPT ![path] = <<>>],
                                !.frames = <<RmReceiptFrame>>]
          [] opcode = 64 ->
               [same EXCEPT !.frames = <<MkdirReceiptFrame(Field(f, 8, 8))>>]
          [] opcode = 80 ->
               [same EXCEPT !.frames = Listing(n)]
          [] opcode = 96 ->
               LET from == SubSeq(f, 7, 6 + Field(f, 2, 2))
                   to == SubSeq(f, 8 + Field(f, 2, 2),
                                7 + Field(f, 2, 2) + Field(f, 4, 2))
               IN  [same EXCEPT
                       !.files = [files EXCEPT ![to] = files[from], ![from] = <<>>],
                       !.frames = <<MvReceiptFrame>>]

(* The device handles the oldest unhandled request frame and notifies its *)
(* response; fault, when not "none", corrupts response frame j.           *)
DeviceStep ==
    /\ inbox # <<>>
    /\ ~closed
    /\ \E n \in 0..MaxEntries, fault \in Faults :
        LET m == Head(inbox)
            a == DeviceAnswer(m.frame, n)
        IN  /\ m.frame[1] = 80 \/ n = 0
            /\ \E j \in 1..Len(a.frames) :
                /\ fault = "none" => j = 1
                /\ fault = "fields" => a.frames[j][1] = CommandWriteReceipt
                /\ fault \in {"overshoot", "zero"} =>
                       /\ a.frames[j][1] = CommandFileChunk
                       /\ Len(a.frames[j]) > 16
                /\ notifications' = notifications \o
                      [i \in 1..Len(a.frames) |->
                          [value |-> IF i = j THEN Corrupt(fault, a.frames[i])
                                     ELSE a.frames[i],
                           req |-> m.req,
                           fault |-> IF i = j THEN fault ELSE "none"]]
            /\ files' = a.files
            /\ devWrite' = a.devWrite
            /\ devRead' = a.devRead
    /\ inbox' = Tail(inbox)
    /\ UNCHANGED <<running, last, nops, closed, abandoned>>

(* The notification stream ends: the peripheral is gone. *)
StreamEnds ==
    /\ ~closed
    /\ closed' = TRUE
    /\ UNCHANGED <<running, last, nops, inbox, notifications, files, devWrite, devRead,
                   abandoned>>

---------------------------------------------------------------------------

Init ==
    /\ running = {}
    /\ last = Idle
    /\ nops = 0
    /\ inbox = <<>>
    /\ notifications = <<>>
    /\ closed = FALSE
    /\ files = InitialFiles
    /\ devWrite = NoWrite
    /\ devRead = <<>>
    /\ abandoned = FALSE

Next ==
    \/ version
    \/ list_dir
    \/ read_file
    \/ write_file
    \/ delete_file
    \/ create_dir
    \/ move_file
    \/ \E t \in running :
        \/ list_dir_loop(t)
        \/ read_file_loop(t)
        \/ write_file_loop(t)
        \/ delete_file_recv(t)
        \/ create_dir_recv(t)
        \/ move_file_recv(t)
        \/ Abandon(t)
    \/ DeviceStep
    \/ StreamEnds

Spec == Init /\ [][Next]_vars

---------------------------------------------------------------------------
(* Callers that pass paths longer than a u16 can count.  The operations    *)
(* are called and dropped; the device stays silent.                        *)

LongPath(n) == [i \in 1..n |-> 97]

LongPaths == {LongPath(65536), LongPath(65537)}

NextLongPath ==
    \/ \E path \in LongPaths : ListDir(path)
    \/ \E path \in LongPaths : ReadFile(path)
    \/ \E path \in LongPaths : WriteFile(path, <<>>, 5)
    \/ \E path \in LongPaths : DeleteFile(path)
    \/ \E path \in LongPaths : CreateDir(path, 5)
    \/ \E from \in LongPaths : \E to \in LongPaths \ {from} : MoveFile(from, to)
    \/ \E t \in running : Abandon(t)

SpecLongPath == Init /\ [][NextLongPath]_vars

---------------------------------------------------------------------------
(* Properties *)

(* Every operation of which the state keeps a record. *)
Ops == running \cup {last}

CeilDiv(n, d) == (n + d - 1) \div d

(* The operation consumed only uncorrupted notifications, each produced   *)
(* for one of its own request frames.                                     *)
OwnAndWellFormed(t) ==
    \A i \in 1..Len(t.rcvd) : t.rcvd[i].req = t.id /\ t.rcvd[i].fault = "none"

(* The device has corrupted none of the notifications in the state. *)
NoFault ==
    /\ \A i \in 1..Len(notifications) : notifications[i].fault = "none"
    /\ \A t \in Ops : \A i \in 1..Len(t.rcvd) : t.rcvd[i].fault = "none"

(* The k-th chunk frame (k from 0) that the wire layout prescribes for data. *)
ExpectedChunk(data, k) ==
    <<34, 1, 0, 0>> \o ToLeBytes(231 * k, 4)
        \o ToLeBytes(Min(Len(data), 231 * (k + 1)) - 231 * k, 4)
        \o SubSeq(data, 231 * k + 1, Min(Len(data), 231 * (k + 1)))

(* C4: for data of length n, write_file emits the start frame (0x20,      *)
(* total_len = n) and then chunk frames (0x22), the k-th carrying offset   *)
(* 231*k and the bytes data[231*k .. min(n, 231*(k+1))]; frames and        *)
(* receipts strictly alternate (a frame is sent only after the receipt of  *)
(* the one before was consumed); and when it returns Ok without the stream *)
(* having ended it has sent exactly ceil(n/231) chunks and consumed        *)
(* exactly ceil(n/231)+1 receipts.                                         *)
C4_WriteFileFrames ==
    \A t \in Ops : t.op = "write_file" =>
        LET n == Len(t.data)
        IN  /\ Len(t.sent) >= 1
            /\ Len(t.sent) <= 1 + CeilDiv(n, 231)
            /\ t.sent[1][1] = 32
            /\ Field(t.sent[1], 16, 4) = n
            /\ \A k \in 1..(Len(t.sent) - 1) :
                   t.sent[k + 1] = ExpectedChunk(t.data, k - 1)
            /\ t.pc = "recv" => Len(t.rcvd) = Len(t.sent) - 1
            /\ t.pc = "done" /\ t.result # "cancelled" /\ ~t.none =>
                   Len(t.rcvd) = Len(t.sent)
            /\ t.result = "ok" /\ ~t.none =>
                   /\ Len(t.sent) = 1 + CeilDiv(n, 231)
                   /\ Len(t.rcvd) = CeilDiv(n, 231) + 1

(* 300 bytes written: chunks of 231 and 69 bytes, three receipts. *)
C4_Witness ==
    /\ last.op = "write_file"
    /\ last.result = "ok"
    /\ Len(last.data) = 300
    /\ Len(last.sent) = 3
    /\ Len(last.sent[2]) = 12 + 231
    /\ Len(last.sent[3]) = 12 + 69
    /\ Len(last.rcvd) = 3

(* Every request frame the state keeps: those the recorded operations     *)
(* sent and those the device has not handled yet.                         *)
Frames ==
    UNION {{t.sent[i] : i \in 1..Len(t.sent)} : t \in Ops}
        \cup {inbox[i].frame : i \in 1..Len(inbox)}

(* C5: every write-file chunk frame (0x22) carries at most 231 bytes of   *)
(* file data and its current_len field equals the number of data bytes it  *)
(* carries; every read-file start (0x10) and continue (0x12) frame         *)
(* requests a chunk_size of at most 231.                                   *)
C5_ChunkCeiling ==
    \A f \in Frames :
        /\ f[1] = 34 => /\ Len(f) - 12 <= 231
                        /\ Field(f, 8, 4) = Len(f) - 12
        /\ f[1] \in {16, 18} => Field(f, 8, 4) <= 231

(* A chunk frame with exactly 231 data bytes and a read-file start frame  *)
(* have been written.                                                     *)
C5_Witness ==
    /\ \E f \in Frames : f[1] = 34 /\ Len(f) - 12 = 231 /\ Field(f, 8, 4) = 231
    /\ \E f \in Frames : f[1] = 16 /\ Field(f, 8, 4) = 231

(* What C6 calls a protocol violation in the notification value, for the  *)
(* operation op: a status other than 1, a command byte other than the      *)
(* operation's, or a declared length that is not the payload's length.     *)
ExpectedCommand(op) ==
    CASE op = "read_file" -> 17
      [] op = "write_file" -> 33
      [] op = "delete_file" -> 49
      [] op = "create_dir" -> 65
      [] op = "list_dir" -> 81
      [] op = "move_file" -> 97

Violation(op, value) ==
    \/ value[2] # 1
    \/ value[1] # ExpectedCommand(op)
    \/ op = "read_file" /\ Field(value, 12, 4) # Len(value) - 16
    \/ op = "list_dir" /\ Field(value, 2, 2) # Len(value) - 28

(* C6: an operation that consumes a notification with a status other than *)
(* 1, another command byte than its own, or (read_file, list_dir) a        *)
(* declared length different from the payload length ends in failure at    *)
(* that frame: the frame is the last it consumes, it does not return       *)
(* success, it is not left waiting, and it has sent no request frame after *)
(* the ones it had sent when the frame arrived.                            *)
C6_ViolationDetected ==
    \A t \in Ops : \A i \in 1..Len(t.rcvd) :
        Violation(t.op, t.rcvd[i].value) =>
            /\ i = Len(t.rcvd)
            /\ t.pc = "done"
            /\ t.result = "panic"
            /\ Len(t.sent) <= i

(* A write_file that had sent a chunk failed at a receipt of status 0. *)
C6_Witness ==
    /\ last.op = "write_file"
    /\ last.result = "panic"
    /\ Len(last.rcvd) = 2
    /\ Len(last.sent) = 2
    /\ last.rcvd[2].value[1] = 33
    /\ last.rcvd[2].value[2] = 0

(* C7: operations issued on one session at the same time are never       *)
(* interleaved: at most one operation is in progress, it is the one        *)
(* issued last (every earlier one has returned or was dropped before it    *)
(* sent its first frame), and the frames waiting at the device are in the  *)
(* order of the operations that wrote them.  A call made while another     *)
(* operation is in progress is refused.                                    *)
C7_SingleInFlight ==
    /\ Cardinality(running) <= 1
    /\ \A t \in running : t.id = nops /\ last.id < t.id
    /\ \A i, j \in 1..Len(inbox) : i < j => inbox[i].req <= inbox[j].req

(* A second operation is in progress after the first one returned, with   *)
(* its frame written and any further call refused.                         *)
C7_Witness ==
    /\ nops = 2
    /\ \E t \in running : t.id = 2 /\ t.prev.id = 1 /\ t.prev.result = "ok"
    /\ ~Exclusive

(* The payload of a file chunk notification and its total_len field. *)
ChunkPayload(value) == SubSeq(value, 17, Len(value))

RECURSIVE Payloads(_)
Payloads(rcvd) ==
    IF rcvd = <<>> THEN <<>>
    ELSE ChunkPayload(rcvd[1].value) \o Payloads(Tail(rcvd))

(* The operation ran to its end against the device alone: it was not     *)
(* dropped and the stream did not end under it.                           *)
RanToEnd(t) == t.pc = "done" /\ t.result # "cancelled" /\ ~t.none

(* C1: write_file(p, d, t) followed by read_file(p) on the same session,  *)
(* against a device that stores the payload and serves it back in chunks,  *)
(* returns exactly d.                                                      *)
C1_RoundTrip ==
    ( /\ last.op = "read_file"
      /\ RanToEnd(last)
      /\ OwnAndWellFormed(last)
      /\ last.prev.op = "write_file"
      /\ last.prev.result = "ok"
      /\ last.prev.path = last.path )
    => /\ last.result = "ok"
       /\ last.contents = last.prev.data

(* C2: read_file returns success only when the accumulator length equals  *)
(* the total_len reported by the device, and then the bytes it returns are *)
(* the in-order concatenation of the payloads of the chunks it received;   *)
(* a file served in well-formed chunks at the requested offsets is         *)
(* returned.                                                               *)
C2_ReadComplete ==
    /\ last.op = "read_file" /\ last.result = "ok" =>
           /\ last.rcvd # <<>>
           /\ Len(last.contents) = Field(last.rcvd[Len(last.rcvd)].value, 8, 4)
           /\ last.contents = Payloads(last.rcvd)
    /\ last.op = "read_file" /\ RanToEnd(last) /\ OwnAndWellFormed(last) =>
           last.result = "ok"

(* The entry_number and entry_count fields of a directory entry frame. *)
EntryNumber(value) == Field(value, 4, 4)
EntryCount(value) == Field(value, 8, 4)

(* C3: list_dir returns the entries in device order, entry k coming from  *)
(* the frame whose entry_number is k, and it stops consuming notifications *)
(* exactly at the first frame whose entry_number equals its entry_count:   *)
(* frames numbered 0, 1, ... in order are consumed up to that frame, the   *)
(* operation returns them, and a frame out of order fails the operation.   *)
C3_ListDirOrder ==
    \A t \in Ops : t.op = "list_dir" =>
        /\ \A k \in 1..Len(t.entries) :
               /\ EntryNumber(t.rcvd[k].value) = k - 1
               /\ t.entries[k].path = SubSeq(t.rcvd[k].value, 29, Len(t.rcvd[k].value))
        /\ \A k \in 1..Len(t.rcvd) :
               EntryNumber(t.rcvd[k].value) # k - 1 =>
                   k = Len(t.rcvd) /\ t.result = "panic"
        /\ ( /\ RanToEnd(t)
             /\ OwnAndWellFormed(t)
             /\ NoFault
             /\ \A k \in 1..Len(t.rcvd) : EntryNumber(t.rcvd[k].value) = k - 1 )
           => /\ t.result = "ok"
              /\ Len(t.entries) = Len(t.rcvd)
              /\ \A k \in 1..Len(t.rcvd) :
                     (EntryNumber(t.rcvd[k].value) = EntryCount(t.rcvd[k].value))
                         <=> k = Len(t.rcvd)

(* C8: with callers that await each operation (and a device that         *)
(* corrupts nothing), at most one request frame awaits its response: an    *)
(* operation in progress has sent at most one frame more than it has       *)
(* consumed responses, and nothing written or notified for an earlier      *)
(* operation is still unconsumed while it runs.                            *)
C8_LockStep ==
    ~abandoned /\ NoFault =>
        \A t \in running :
            /\ Len(t.sent) <= Len(t.rcvd) + 1
            /\ \A i \in 1..Len(inbox) : inbox[i].req = t.id
            /\ \A i \in 1..Len(notifications) : notifications[i].req = t.id
            /\ Len(inbox) <= 1

(* C9: after an operation fails with a protocol violation, the next       *)
(* operation on the session, answered by a compliant device, consumes only *)
(* notifications produced in response to its own frames and succeeds.      *)
C9_FailureKeepsSession ==
    \A t \in Ops :
        ( /\ t.prev.result = "panic"
          /\ RanToEnd(t)
          /\ \A i \in 1..Len(t.rcvd) :
                 t.rcvd[i].req = t.id => t.rcvd[i].fault = "none" )
        => /\ t.result = "ok"
           /\ \A i \in 1..Len(t.rcvd) : t.rcvd[i].req = t.id

(* C10: the notification answering an abandoned operation stays in the    *)
(* stream and the next operation consumes it as its own response; a        *)
(* read_file started after an abandoned read_file of another path accepts  *)
(* the stale offset-0 chunk as its first chunk.                            *)
C10_StaleChunkAccepted ==
    \A t \in Ops :
        ( /\ t.op = "read_file"
          /\ t.prev.op = "read_file"
          /\ t.prev.result = "cancelled"
          /\ t.prev.path # t.path
          /\ t.rcvd # <<>>
          /\ t.rcvd[1].req = t.prev.id
          /\ t.rcvd[1].fault = "none" )
        => /\ t.result # "panic"
           /\ SubSeq(t.contents, 1, Len(ChunkPayload(t.rcvd[1].value)))
                  = ChunkPayload(t.rcvd[1].value)

---------------------------------------------------------------------------
(* Responses accepted, frames written *)

(* The operation went on after consuming its i-th notification: the        *)
(* notification passed every assertion.                                    *)
Accepted(t, i) == ~(i = Len(t.rcvd) /\ t.result = "panic")

(* The request frame the operation had written last when it consumed its   *)
(* i-th notification.                                                      *)
LastSentBefore(t, i) == t.sent[Min(i, Len(t.sent))]

(* C12 as stated: the only response the client accepts after a request     *)
(* frame has a command byte equal to that frame's opcode plus one and a    *)
(* status byte equal to 1, for initial and continuation frames alike.      *)
C12_CommandOfFrame ==
    \A t \in Ops : \A i \in 1..Len(t.rcvd) :
        Accepted(t, i) =>
            /\ t.rcvd[i].value[1] = LastSentBefore(t, i)[1] + 1
            /\ t.rcvd[i].value[2] = 1

(* C12 amended: the only response the client accepts has a command byte    *)
(* equal to the opcode of the operation's initial frame plus one (0x21     *)
(* after 0x20 and after 0x22 alike) and a status byte equal to 1.          *)
C12_CommandOfOperation ==
    \A t \in Ops : \A i \in 1..Len(t.rcvd) :
        Accepted(t, i) =>
            /\ t.rcvd[i].value[1] = t.sent[1][1] + 1
            /\ t.rcvd[i].value[2] = 1

(* write_file accepted the receipt 0x21 that answers a chunk frame 0x22. *)
C12_Witness ==
    /\ last.op = "write_file"
    /\ last.result = "ok"
    /\ Len(last.rcvd) = 3
    /\ last.sent[2][1] = 34
    /\ last.rcvd[2].value[1] = 33
    /\ last.rcvd[2].value[2] = 1

(* Little-endian integers as the layout table writes them. *)
U16(n) == <<n % 256, (n \div 256) % 256>>
U32(n) == <<n % 256, (n \div 256) % 256, (n \div 65536) % 256, (n \div 16777216) % 256>>
U64(n) == U32(n) \o <<0, 0, 0, 0>>

(* The initial frame the layout table prescribes for the operation. *)
InitialLayout(t) ==
    CASE t.op = "read_file" ->
             <<16, 0>> \o U16(Len(t.path)) \o U32(0) \o U32(231) \o t.path
      [] t.op = "write_file" ->
             <<32, 0>> \o U16(Len(t.path)) \o U32(0) \o U64(t.timestamp)
                 \o U32(Len(t.data)) \o t.path
      [] t.op = "delete_file" -> <<48, 0>> \o U16(Len(t.path)) \o t.path
      [] t.op = "create_dir" ->
             <<64, 0>> \o U16(Len(t.path)) \o <<0, 0, 0, 0>> \o U64(t.timestamp)
                 \o t.path
      [] t.op = "list_dir" -> <<80, 0>> \o U16(Len(t.path)) \o t.path
      [] t.op = "move_file" ->
             <<96, 0>> \o U16(Len(t.path)) \o U16(Len(t.to)) \o t.path \o <<0>>
                 \o t.to

(* C13: every frame written starts with its opcode and a second byte that  *)
(* is 0x00 on initial frames and 0x01 on continuation frames, followed by  *)
(* the little-endian fields of the layout table in that order: the first   *)
(* frame of an operation is the table's initial frame for its arguments,   *)
(* every later frame is a continuation 0x12 or 0x22 with 0x01, two zero    *)
(* bytes, u32 offset and u32 length; a read-file continue is 0x12, 0x01,   *)
(* 0x00, 0x00, u32 offset, u32 231.                                        *)
C13_WriteEncoding ==
    /\ \A t \in Ops : t.sent # <<>> =>
           /\ t.sent[1] = InitialLayout(t)
           /\ \A k \in 2..Len(t.sent) :
                  /\ t.sent[k][1] = (IF t.op = "write_file" THEN 34 ELSE 18)
                  /\ SubSeq(t.sent[k], 2, 4) = <<1, 0, 0>>
                  /\ t.op = "write_file" =>
                         t.sent[k] = <<34, 1, 0, 0>> \o U32(Field(t.sent[k], 4, 4))
                             \o U32(Len(t.sent[k]) - 12)
                             \o SubSeq(t.sent[k], 13, Len(t.sent[k]))
                  /\ t.op = "read_file" =>
                         t.sent[k] = <<18, 1, 0, 0>> \o U32(Field(t.sent[k], 4, 4))
                             \o U32(231)
    /\ \A offset \in {0, 231, 462} :
           ReadContinueFrame(offset) = <<18, 1, 0, 0>> \o U32(offset) \o U32(231)
    /\ \A f \in Frames : f[2] = (IF f[1] \in {18, 34} THEN 1 ELSE 0)

(* move_file("x", "/y") has written 60 00 01 00 02 00 78 00 2F 79 after a   *)
(* write_file that wrote a chunk frame.                                    *)
C13_Witness ==
    /\ last.op = "write_file"
    /\ Len(last.sent) >= 2
    /\ last.sent[2][1] = 34
    /\ last.sent[2][2] = 1
    /\ \E t \in running :
           /\ t.op = "move_file"
           /\ t.sent = << <<96, 0, 1, 0, 2, 0, 120, 0, 47, 121>> >>

(* C14: version returns the bytes read from the version characteristic,   *)
(* right-padded with zero bytes or truncated to exactly 4 bytes, as a      *)
(* little-endian unsigned 32-bit integer, and the call writes nothing to   *)
(* the transfer characteristic and consumes no notification.               *)
C14_Version ==
    [][ (nops' = nops + 1 /\ last'.id = nops' /\ last'.op = "version") =>
            LET b == last'.data
                B(i) == IF i <= Len(b) THEN b[i] ELSE 0
            IN  /\ last'.result = "ok"
                /\ last'.version = B(1) + 256 * B(2) + 65536 * B(3) + 16777216 * B(4)
                /\ inbox' = inbox
                /\ notifications' = notifications
                /\ running' = running ]_vars

(* version on a 6-byte read used its first 4 bytes: 01 02 03 04. *)
C14_Witness ==
    /\ last.op = "version"
    /\ last.data = <<1, 2, 3, 4, 9, 9>>
    /\ last.version = 67305985
    /\ last.result = "ok"

(* The i-th notification the operation consumed was produced by the device *)
(* for one of the operation's own frames and was not corrupted.            *)
OwnAt(t, i) == t.rcvd[i].req = t.id /\ t.rcvd[i].fault = "none"

(* C15: when the device answers list_dir with the single end frame of an   *)
(* empty directory (entry_count = 0, entry_number = 0, path_len = 0),      *)
(* list_dir terminates after that one frame and returns no entries.        *)
C15_EmptyDirectory ==
    \A t \in Ops :
        ( /\ t.op = "list_dir"
          /\ t.rcvd # <<>>
          /\ OwnAt(t, 1)
          /\ EntryNumber(t.rcvd[1].value) = 0
          /\ EntryCount(t.rcvd[1].value) = 0
          /\ Field(t.rcvd[1].value, 2, 2) = 0
          /\ Len(t.rcvd[1].value) = 28 )
        => /\ t.pc = "done"
           /\ t.result = "ok"
           /\ Len(t.rcvd) = 1
           /\ t.entries = <<>>

(* C16: the payload-carrying receive splits a notification at byte         *)
(* 2 + sizeof(body): a well-formed FileChunk frame of 16 + n bytes or      *)
(* RawDirEntry frame of 28 + n bytes is accepted, its first 16 (28) bytes  *)
(* decoded as the response and the remaining n bytes returned as payload.  *)
C16_PayloadSplit ==
    \A t \in Ops : \A i \in 1..Len(t.rcvd) :
        LET value == t.rcvd[i].value
        IN  /\ ( NoFault /\ t.op = "read_file" /\ OwnAt(t, i) /\ Len(value) >= 16 ) =>
                   LET r == payload_recv(SizeOfFileChunk, CommandFileChunk, value)
                   IN  /\ ~r.panic
                       /\ r.response = SubSeq(value, 1, 16)
                       /\ r.payload = SubSeq(value, 17, Len(value))
            /\ ( NoFault /\ t.op = "list_dir" /\ OwnAt(t, i) /\ Len(value) >= 28 ) =>
                   LET r == payload_recv(SizeOfRawDirEntry, CommandRawDirEntry, value)
                   IN  /\ ~r.panic
                       /\ r.response = SubSeq(value, 1, 28)
                       /\ r.payload = SubSeq(value, 29, Len(value))

(* The sum of current_len over the first k chunks the operation consumed. *)
RECURSIVE SumCurrentLen(_, _)
SumCurrentLen(rcvd, k) ==
    IF k = 0 THEN 0 ELSE Field(rcvd[k].value, 12, 4) + SumCurrentLen(rcvd, k - 1)

(* C17: in read_file the offset starts at 0, every accepted chunk has a    *)
(* response offset equal to the client's offset, the offset of each        *)
(* continue frame (0x12) equals the sum of current_len over the chunks     *)
(* accepted so far, which is the accumulator length, and a well-formed     *)
(* chunk at the client's offset that does not complete the file is         *)
(* accepted and followed by a continue frame at the advanced offset.       *)
C17_OffsetTracking ==
    \A t \in Ops : t.op = "read_file" =>
        /\ Field(t.sent[1], 4, 4) = 0
        /\ \A i \in 1..Len(t.rcvd) :
               Accepted(t, i) =>
                   Field(t.rcvd[i].value, 4, 4) = SumCurrentLen(t.rcvd, i - 1)
        /\ \A k \in 2..Len(t.sent) :
               /\ Field(t.sent[k], 4, 4) = SumCurrentLen(t.rcvd, k - 1)
               /\ Field(t.sent[k], 4, 4) = Len(Payloads(SubSeq(t.rcvd, 1, k - 1)))
        /\ ( /\ t.rcvd # <<>>
             /\ OwnAt(t, 1)
             /\ Field(t.rcvd[1].value, 4, 4) = 0
             /\ Field(t.rcvd[1].value, 12, 4) = Len(ChunkPayload(t.rcvd[1].value))
             /\ Field(t.rcvd[1].value, 12, 4) < Field(t.rcvd[1].value, 8, 4) )
           => /\ Len(t.sent) >= 2
              /\ t.sent[2][1] = 18
              /\ Field(t.sent[2], 4, 4) = Field(t.rcvd[1].value, 12, 4)

(* C20: an operation to which the notification stream yielded None before  *)
(* it had completed does not return success: write_file returns success    *)
(* only after every byte of data was sent in a chunk frame and the receipt *)
(* of the last chunk was consumed, read_file only with total_len bytes,    *)
(* list_dir only after the frame with entry_number = entry_count.          *)
C20_NoSuccessIncomplete ==
    \A t \in Ops : t.result = "ok" =>
        /\ ~t.none
        /\ t.op = "write_file" =>
               /\ Len(t.sent) = 1 + CeilDiv(Len(t.data), 231)
               /\ Len(t.rcvd) = Len(t.sent)
        /\ t.op = "read_file" =>
               /\ t.rcvd # <<>>
               /\ Len(t.contents) = Field(t.rcvd[Len(t.rcvd)].value, 8, 4)
        /\ t.op = "list_dir" =>
               /\ t.rcvd # <<>>
               /\ EntryNumber(t.rcvd[Len(t.rcvd)].value)
                      = EntryCount(t.rcvd[Len(t.rcvd)].value)

(* Every notification in rcvd is a success write receipt: 20 bytes, command *)
(* 0x21, status 1, whatever its offset, timestamp and remaining fields.    *)
SuccessReceipts(rcvd) ==
    \A i \in 1..Len(rcvd) :
        /\ Len(rcvd[i].value) = 20
        /\ rcvd[i].value[1] = 33
        /\ rcvd[i].value[2] = 1

(* C18: write_file ignores the contents of receipts: two runs with the     *)
(* same (path, data, timestamp) that consumed the same number of success   *)
(* receipts, with whatever offset, timestamp and remaining values, have    *)
(* emitted the identical sequence of frames; a success receipt never fails *)
(* the operation whatever offset it echoes, and every chunk has the size   *)
(* min(231, bytes left) whatever remaining said.                           *)
C18_ReceiptsIgnored ==
    \A t \in Ops : (t.op = "write_file" /\ SuccessReceipts(t.rcvd)) =>
        /\ t.result # "panic"
        /\ \A k \in 2..Len(t.sent) :
               Len(t.sent[k]) - 12 = Min(231, Len(t.data) - 231 * (k - 2))
        /\ ( /\ t.prev.op = "write_file"
             /\ t.prev.path = t.path
             /\ t.prev.data = t.data
             /\ t.prev.timestamp = t.timestamp
             /\ SuccessReceipts(t.prev.rcvd)
             /\ Len(t.prev.rcvd) = Len(t.rcvd) )
           => t.sent = t.prev.sent

(* Two write_file runs of the same 300 bytes returned Ok having written    *)
(* the same three frames, the first with the receipts of a device that     *)
(* echoes the offset, the second with receipts reporting other offsets and *)
(* no remaining capacity.                                                  *)
C18_Witness ==
    /\ last.op = "write_file"
    /\ last.result = "ok"
    /\ Len(last.data) = 300
    /\ last.prev.op = "write_file"
    /\ last.prev.result = "ok"
    /\ last.prev.path = last.path
    /\ last.prev.data = last.data
    /\ Len(last.rcvd) = 3
    /\ Len(last.prev.rcvd) = 3
    /\ \A i \in 1..3 : last.prev.rcvd[i].fault = "none"
    /\ \A i \in 1..3 : last.rcvd[i].fault = "fields"
    /\ Field(last.rcvd[1].value, 16, 4) = 0
    /\ Field(last.rcvd[2].value, 4, 4) # 231
    /\ Len(last.sent) = 3
    /\ last.sent = last.prev.sent

(* C19: against a device that answers every request frame with its         *)
(* well-formed success response, the stream staying open and the caller    *)
(* awaiting the operation, an operation never waits with no frame and no   *)
(* notification in flight (so fair delivery keeps it moving), it ends only *)
(* by returning, and write_file on n bytes returns after at most           *)
(* ceil(n/231)+1 receipts.  Stated for the first operation of a session,   *)
(* whose notifications are all in the state.                               *)
C19_Termination ==
    \A t \in Ops :
        ( t.id = 1 /\ nops = 1 /\ NoFault /\ ~closed /\ ~abandoned ) =>
            /\ t.pc = "recv" => (inbox # <<>> \/ notifications # <<>>)
            /\ t.pc = "done" => t.result = "ok"
            /\ t.op = "write_file" =>
                   Len(t.rcvd) <= CeilDiv(Len(t.data), 231) + 1

(* The number of path bytes a request frame carries after its fixed fields *)
(* (for a move: both paths, without the separator), and the number its     *)
(* path_len field (fields) announces.                                      *)
PathBytes(f) ==
    CASE f[1] = 16 -> Len(f) - 12
      [] f[1] = 32 -> Len(f) - 20
      [] f[1] = 64 -> Len(f) - 16
      [] f[1] = 96 -> Len(f) - 7
      [] OTHER -> Len(f) - 4

PathLenField(f) ==
    IF f[1] = 96 THEN Field(f, 2, 2) + Field(f, 4, 2) ELSE Field(f, 2, 2)

(* C11: an operation given a path longer than 65535 bytes fails without    *)
(* writing any frame to the transfer characteristic, and no frame is ever  *)
(* emitted whose path_len field differs from the number of path bytes that *)
(* follow.                                                                 *)
C11_LongPathRejected ==
    /\ \A t \in Ops :
           (Len(t.path) > 65535 \/ Len(t.to) > 65535) =>
               /\ t.sent = <<>>
               /\ t.pc = "done"
               /\ t.result \notin {"ok", "none"}
    /\ \A f \in Frames : f[1] \in {16, 32, 48, 64, 80, 96} =>
           PathLenField(f) = PathBytes(f)

(* A file chunk notification, its total_len and current_len fields. *)
IsChunk(value) == Len(value) >= 16 /\ value[1] = 17
TotalLen(value) == Field(value, 8, 4)
CurrentLen(value) == Field(value, 12, 4)

(* The i-th notification read_file consumed is a chunk that cannot be      *)
(* progress: it would push the accumulated length past its total_len, its  *)
(* total_len differs from the one of the chunk before, or it carries no    *)
(* bytes while the file is not complete.                                   *)
NoProgress(t, i) ==
    LET value == t.rcvd[i].value
        before == Len(Payloads(SubSeq(t.rcvd, 1, i - 1)))
    IN  /\ IsChunk(value)
        /\ \/ before + Len(ChunkPayload(value)) > TotalLen(value)
           \/ /\ i > 1
              /\ IsChunk(t.rcvd[i - 1].value)
              /\ TotalLen(value) # TotalLen(t.rcvd[i - 1].value)
           \/ CurrentLen(value) = 0 /\ before < TotalLen(value)

(* C21: in read_file the accumulator length is at most the total_len       *)
(* reported by the chunks received; a chunk that would push the            *)
(* accumulated length past total_len, whose total_len differs from the one *)
(* reported earlier, or with current_len = 0 before completion is not      *)
(* accepted and no continue frame follows it; every continue frame asks    *)
(* for an offset beyond the one before and below total_len, so continue    *)
(* frames cannot go on forever.                                            *)
C21_AccumulatorBounded ==
    \A t \in Ops : t.op = "read_file" =>
        /\ \A i \in 1..Len(t.rcvd) :
               IsChunk(t.rcvd[i].value) =>
                   Len(t.contents) <= TotalLen(t.rcvd[i].value)
        /\ \A i \in 1..Len(t.rcvd) :
               NoProgress(t, i) => (~Accepted(t, i) /\ Len(t.sent) <= i)
        /\ \A k \in 2..Len(t.sent) :
               /\ Field(t.sent[k], 4, 4) > Field(t.sent[k - 1], 4, 4)
               /\ Field(t.sent[k], 4, 4) < TotalLen(t.rcvd[k - 1].value)

(* read_file("x") received as its own first chunk 231 bytes with a         *)
(* total_len of 230, failed at it and wrote no continue frame.             *)
C21_Witness ==
    /\ last.op = "read_file"
    /\ Len(last.rcvd) = 1
    /\ last.rcvd[1].req = last.id
    /\ last.rcvd[1].fault = "overshoot"
    /\ TotalLen(last.rcvd[1].value) = 230
    /\ Len(ChunkPayload(last.rcvd[1].value)) = 231
    /\ last.result = "panic"
    /\ Len(last.sent) = 1
    /\ last.contents = <<>>

(* The operations that use the transfer characteristic. *)
TransferOps ==
    {"list_dir", "read_file", "write_file", "delete_file", "create_dir", "move_file"}

(* After the operation that ended last returned success, the stream holds  *)
(* no notification produced for it, and an operation called after a        *)
(* success consumed as its first notification one produced for its own     *)
(* request.                                                                *)
Quiescent ==
    /\ (last.result = "ok" /\ last.op \in TransferOps) =>
           \A i \in 1..Len(notifications) : notifications[i].req # last.id
    /\ \A t \in Ops :
           ( /\ t.op \in TransferOps
             /\ t.prev.result = "ok"
             /\ t.prev.op \in TransferOps
             /\ t.rcvd # <<>> )
           => t.rcvd[1].req = t.id

====
